---- MODULE Spec2Model ----
(***************************************************************************)
(* Identity-provider webhook (app/api/webhook/route.ts and its second      *)
(* copy, src/unnamed/part_001) and the account actions it drives           *)
(* (lib/actions/user.action.ts), over the User / Question / Answer         *)
(* collections of the document store.                                      *)
(*                                                                         *)
(* Strings the code computes with (ids, names, usernames) are sequences    *)
(* of one-character strings; JavaScript null is the value Null.            *)
(***************************************************************************)
EXTENDS Integers, Sequences, FiniteSets, TLC

VARIABLES
    WEBHOOK_SECRET, \* process.env.NEXT_CLERK_WEBHOOK_SECRET
    users,          \* the User collection
    questions,      \* the Question collection
    answers,        \* the Answer collection
    pc,             \* per handler invocation: the await it is suspended at
    args,           \* per invocation: the argument of the pending action call
    userToDelete,   \* per invocation: deleteUser's local (line 78)
    response,       \* per invocation: the response it returned last
    lastDeleted,    \* clerkIds whose Account a deleteUser removed, none created since
    lastId,         \* the last _id the store generated for a User
    request,        \* the request under observation (SpecFront only)
    nreq,           \* webhook requests received so far
    read,           \* what the last read operation was given and returned
    save,           \* per toggleSaveQuestion call: its await and its locals
    toggled,        \* toggleSaveQuestion calls started and completed so far
    edit            \* the question edit page: its await, locals and outcome

vars == <<WEBHOOK_SECRET, users, questions, answers, pc, args, userToDelete,
          response, lastDeleted, lastId, request, nreq, read, save, toggled, edit>>

------------------------------------------------------------------------------
(* Bounds of the exploration.                                              *)

MaxRequests == 2
MaxPage == 3
MaxPageSize == 2

Procs == {1, 2}

------------------------------------------------------------------------------
(* JavaScript strings and the string operations the handler uses.          *)

Null == <<"NULL">>
Falsy(s) == s = Null \/ s = <<>>
OrEmpty(s) == IF Falsy(s) THEN <<>> ELSE s
Or(a, b) == IF Falsy(a) THEN b ELSE a

\* `${x}` of a template literal: null prints as the four letters "null"
Template(s) == IF s = Null THEN <<"n", "u", "l", "l">> ELSE s

IsSpace(c) == c = " "

\* String.prototype.toLowerCase over the letters used here
LowerChar(c) ==
    CASE c = "A" -> "a"
      [] c = "B" -> "b"
      [] c = "Z" -> "z"
      [] OTHER -> c
toLowerCase(s) == [i \in 1..Len(s) |-> LowerChar(s[i])]

\* s.replace(/\s+/g, '')
StripSpaces(s) == SelectSeq(s, LAMBDA c : ~IsSpace(c))

RECURSIVE trimStart(_)
trimStart(s) == IF s # <<>> /\ IsSpace(Head(s)) THEN trimStart(Tail(s)) ELSE s
RECURSIVE trimEnd(_)
trimEnd(s) ==
    IF s # <<>> /\ IsSpace(s[Len(s)]) THEN trimEnd(SubSeq(s, 1, Len(s) - 1)) ELSE s
trim(s) == trimEnd(trimStart(s))

\* s.substring(start): a negative start is clamped to 0
substring(s, start) ==
    LET from == IF start < 0 THEN 0 ELSE IF start > Len(s) THEN Len(s) ELSE start
    IN  SubSeq(s, from + 1, Len(s))

UserPrefix == <<"u", "s", "e", "r", "_">>

------------------------------------------------------------------------------
(* Event payloads.  email_address and image_url are only tested for truth  *)
(* and copied, so they are atoms; the absent value of an atom is NullAtom. *)

NullAtom == "<null>"
FalsyAtom(a) == a = NullAtom \/ a = ""

ID1 == <<"a", "1", "2", "3", "4", "5", "6">>
ID2 == <<"b", "6", "5", "4", "3", "2", "1">>
BOB == <<"b", "o", "b">>

UserData(id, emails, image, username, first, last) ==
    [id |-> id, email_addresses |-> emails, image_url |-> image,
     username |-> username, first_name |-> first, last_name |-> last]

\* complete payloads: PB has PA's username, PC has PA's email, PE has PA's id
PA == UserData(ID1, <<"a@x.com">>, "http://x/i.png", BOB, Null, Null)
PB == UserData(ID2, <<"b@x.com">>, "http://x/i.png", BOB, Null, Null)
PC == UserData(ID2, <<"a@x.com">>, "http://x/i.png", Null, <<"A", "l">>, <<" ", "Z">>)
PD == UserData(ID2, <<"b@x.com">>, "http://x/i.png", Null, Null, Null)
PE == UserData(ID1, <<"b@x.com">>, "http://x/i.png", Null, <<"A", "l">>, <<" ", "Z">>)
\* incomplete payloads
PNoId == UserData(Null, <<"a@x.com">>, "http://x/i.png", BOB, Null, Null)
PNoEmail == UserData(ID1, <<>>, "http://x/i.png", BOB, Null, Null)
PNullEmails == UserData(ID1, Null, "http://x/i.png", BOB, Null, Null)
PEmptyEmail == UserData(ID1, <<"">>, "http://x/i.png", BOB, Null, Null)
PNoImage == UserData(ID1, <<"a@x.com">>, NullAtom, BOB, Null, Null)

Payloads == {PA, PB, PC, PD, PE, PNoId, PNoEmail, PNullEmails, PEmptyEmail, PNoImage}

Events ==
    [type : {"user.created", "user.updated"}, data : Payloads]
    \cup [type : {"user.deleted"}, data : [id : {ID1, ID2, Null}, deleted : {TRUE}]]
    \cup {[type |-> "session.created", data |-> [id |-> ID1]]}

------------------------------------------------------------------------------
(* Request bodies are sequences of tokens: braces, insignificant           *)
(* whitespace, and the text of an event's members.                         *)

LB == [tok |-> "{", val |-> <<>>]
RB == [tok |-> "}", val |-> <<>>]
WS == [tok |-> " ", val |-> <<>>]
MEM(e) == [tok |-> "members", val |-> <<e>>]

SyntaxError == [type |-> "SyntaxError", data |-> [id |-> Null]]

\* req.json(): whitespace between tokens is skipped; anything but one object fails
JSON_parse(body) ==
    LET s == SelectSeq(body, LAMBDA t : t # WS)
    IN  IF Len(s) = 3 /\ s[1] = LB /\ s[3] = RB /\ s[2].tok = "members"
        THEN s[2].val[1]
        ELSE SyntaxError

\* JSON.stringify(payload): the compact form, whatever the sender's spacing was
JSON_stringify(e) == <<LB, MEM(e), RB>>

------------------------------------------------------------------------------
(* Signatures: a keyed hash over id.timestamp.body is the tuple of what    *)
(* was hashed, so two signatures agree iff key and signed content agree.   *)

SECRET == "whsec_abc"
NoSecret == ""
NoHeader == "<absent>"
NOW == "t_now"
STALE == "t_stale"

Sign(key, id, ts, body) == [key |-> key, id |-> id, ts |-> ts, body |-> body]
NoSignature == Sign(NoHeader, "", "", <<>>)

\* Webhook.verify of the signing library: throws unless the signature header is
\* the keyed hash of id.timestamp.body and the timestamp is within tolerance
wh_verify(secret, body, svix_id, svix_timestamp, svix_signature) ==
    /\ svix_signature = Sign(secret, svix_id, svix_timestamp, body)
    /\ svix_timestamp = NOW

------------------------------------------------------------------------------
(* Requests.  A delivery of the identity provider carries the event in one *)
(* of its serializations and is signed over exactly the bytes sent.        *)

Handlers == {"route", "part_001"}

Request(h, id, ts, sig, body) ==
    [handler |-> h, svix_id |-> id, svix_timestamp |-> ts,
     svix_signature |-> sig, body |-> body]

Delivery(h, body, ts) == Request(h, "msg_1", ts, Sign(SECRET, "msg_1", ts, body), body)

Compact(e) == <<LB, MEM(e), RB>>
Spaced(e) == <<LB, WS, MEM(e), RB>>
Serializations(e) == {Compact(e), Spaced(e)}

Created(d) == [type |-> "user.created", data |-> d]

\* the deliveries that are tampered with
TamperBase ==
    {Delivery(h, b, NOW) : h \in Handlers, b \in Serializations(Created(PA))}

\* what the provider sends: any event to either endpoint, in either spacing
\* (the spaced form is enumerated for one event)
GenuineRequests ==
    {Delivery(h, Compact(e), NOW) : h \in Handlers, e \in Events} \cup TamperBase

\* one byte of the body changed after signing
BodyMutations(g) ==
    LET Tokens == {LB, RB, WS, MEM([type |-> "user.deleted",
                                    data |-> [id |-> ID1, deleted |-> TRUE]]),
                   MEM([type |-> "user.created", data |-> PD])}
    IN  {[g EXCEPT !.body[i] = t] : i \in 1..Len(g.body), t \in Tokens} \ {g}

\* one byte of a transport header changed after signing
HeaderMutations(g) ==
    {[g EXCEPT !.svix_id = "msg_2"],
     [g EXCEPT !.svix_timestamp = IF g.svix_timestamp = NOW THEN STALE ELSE NOW],
     [g EXCEPT !.svix_signature.key = "whsec_abd"]}

\* a transport header absent, or present and empty
HeaderRemovals(g) ==
    UNION {{[g EXCEPT !.svix_id = v], [g EXCEPT !.svix_timestamp = v]}
               : v \in {NoHeader, ""}}
    \cup {[g EXCEPT !.svix_signature = NoSignature]}

\* a body cut short
Truncated == {Delivery(h, <<LB, MEM(Created(PA))>>, NOW) : h \in Handlers}

MutatedRequests ==
    UNION {BodyMutations(g) \cup HeaderMutations(g) : g \in TamperBase}

TamperedRequests ==
    MutatedRequests
    \cup UNION {HeaderRemovals(g) : g \in TamperBase \cup Truncated}
    \cup {Delivery(h, Compact(Created(PA)), STALE) : h \in Handlers}
    \cup Truncated

AllRequests == GenuineRequests \cup TamperedRequests

\* the requests of the concurrent specification: every delivery, and a few
\* requests that are turned away
Requests ==
    GenuineRequests \cup UNION {HeaderMutations(g) : g \in TamperBase}

NoRequest == Request("", NoHeader, NoHeader, NoSignature, <<>>)

------------------------------------------------------------------------------
(* Event normalisation in the handlers.                                    *)

\* the validation without the test of image_url
IncompleteUserData_noImage(d) ==
    \/ Falsy(d.id)
    \/ d.email_addresses = Null
    \/ Len(d.email_addresses) = 0
    \/ FalsyAtom(d.email_addresses[1])

\* route.ts 72 and 122, part_001 69 and 110
IncompleteUserData(d) ==
    \/ Falsy(d.id)
    \/ d.email_addresses = Null
    \/ Len(d.email_addresses) = 0
    \/ FalsyAtom(d.email_addresses[1])
    \/ FalsyAtom(d.image_url)

idSuffix(id) == UserPrefix \o substring(id, Len(id) - 6)

actualUsername(h, d) ==
    IF h = "route"
    THEN Or(d.username,
            Or(toLowerCase(StripSpaces(OrEmpty(d.first_name) \o OrEmpty(d.last_name))),
               idSuffix(d.id)))
    ELSE Or(d.username,
            Or(Template(d.first_name) \o Template(d.last_name), idSuffix(d.id)))

actualName(h, d) ==
    Or(trim(OrEmpty(d.first_name) \o <<" ">> \o OrEmpty(d.last_name)),
       actualUsername(h, d))

updateDataForDB(h, d) ==
    [name |-> actualName(h, d), username |-> actualUsername(h, d),
     email |-> d.email_addresses[1], picture |-> d.image_url]

NoData == [name |-> Null, username |-> Null, email |-> NullAtom, picture |-> NullAtom]

Call(h, clerkId, data) == [handler |-> h, clerkId |-> clerkId, data |-> data]
NoArgs == Call("", Null, NoData)

------------------------------------------------------------------------------
(* The store.                                                              *)

NoUser == [_id |-> 0]

User(id, clerkId, data) ==
    [_id |-> id, clerkId |-> clerkId, name |-> data.name, username |-> data.username,
     email |-> data.email, picture |-> data.picture, saved |-> {}, reputation |-> 0]

\* User.findOne({ clerkId })
User_findOne(clerkId) ==
    IF \E u \in users : u.clerkId = clerkId
    THEN CHOOSE u \in users : u.clerkId = clerkId
    ELSE NoUser

\* the schema without the unique index on clerkId
DuplicateKey_noClerkIdIndex(others, doc) ==
    \E u \in others :
        \/ u.username = doc.username
        \/ u.email = doc.email

\* the unique indexes of the User schema: clerkId, username, email
DuplicateKey(others, doc) ==
    \E u \in others :
        \/ u.clerkId = doc.clerkId
        \/ u.username = doc.username
        \/ u.email = doc.email

\* the update applied as a replacement document: the fields not in data are lost
Updated_replace(u, data) == User(u._id, u.clerkId, data)

\* the document findOneAndUpdate({ clerkId }, updateData, { new: true }) writes
Updated(u, data) ==
    [u EXCEPT !.name = data.name, !.username = data.username,
              !.email = data.email, !.picture = data.picture]

\* Question and Answer documents, as far as the account actions read them
Title(id) ==
    CASE id = 1 -> <<"a", ".", "b">>
      [] id = 2 -> <<"a", "c", "b">>
      [] id = 3 -> <<"B", "(">>
      [] OTHER -> <<"b", "o", "b">>

Question(id, author) == [_id |-> id, author |-> author, title |-> Title(id)]
Answer(id, author, question) == [_id |-> id, author |-> author, question |-> question]

\* The stores a deployment starts from: empty, one account with its own
\* content, two accounts that answered each other's questions.
AccountA == User(1, ID1, updateDataForDB("route", PA))
\* AccountB has saved AccountA's question and its own and has earned reputation
AccountB ==
    [User(2, ID2, updateDataForDB("route", PD)) EXCEPT !.saved = {1, 2}, !.reputation = 10]

Stores ==
    {[users |-> {}, questions |-> {}, answers |-> {}],
     [users |-> {AccountA}, questions |-> {Question(1, 1)},
      answers |-> {Answer(1, 1, 1)}],
     [users |-> {AccountA, AccountB},
      questions |-> {Question(1, 1), Question(2, 2)},
      answers |-> {Answer(1, 1, 2), Answer(2, 2, 1)}]}

\* a store with enough content for several pages: AccountA wrote three
\* questions and three answers, AccountB saved AccountA's questions
ListStores ==
    Stores
    \cup {[users |-> {AccountA, [AccountB EXCEPT !.saved = {1, 2, 3}]},
           questions |-> {Question(1, 1), Question(2, 1), Question(3, 1), Question(4, 2)},
           answers |-> {Answer(1, 1, 4), Answer(2, 1, 4), Answer(3, 1, 4),
                        Answer(4, 2, 1)}]}

------------------------------------------------------------------------------
(* Responses.                                                              *)

Response(status, message, user) == [status |-> status, message |-> message, user |-> user]
NoResponse == Response(0, "pending", NoUser)

Idle == "idle"
Front(nextpc, a, resp) == [pc |-> nextpc, args |-> a, response |-> resp]
Reply(status, message) == Front(Idle, NoArgs, Response(status, message, NoUser))

\* the header check without the signature header
MissingHeaders_noSignature(r) ==
    \/ r.svix_id \in {NoHeader, ""}
    \/ r.svix_timestamp \in {NoHeader, ""}

\* route.ts 24, part_001 26
MissingHeaders(r) ==
    \/ r.svix_id \in {NoHeader, ""}
    \/ r.svix_timestamp \in {NoHeader, ""}
    \/ r.svix_signature = NoSignature

\* the body handed to verify: the parsed payload serialized again
VerifiedBody(r) == JSON_stringify(JSON_parse(r.body))

Verifies(r, secret) ==
    wh_verify(secret, VerifiedBody(r), r.svix_id, r.svix_timestamp, r.svix_signature)

\* the dispatch with the updated branch calling createUser
Dispatch_updateCreates(h, evt) ==
    CASE evt.type \in {"user.created", "user.updated"} ->
            IF IncompleteUserData(evt.data)
            THEN Reply(400, "missing required user data")
            ELSE Front("createUser", Call(h, evt.data.id, updateDataForDB(h, evt.data)),
                       NoResponse)
      [] evt.type = "user.deleted" ->
            IF Falsy(evt.data.id)
            THEN Reply(400, "missing user id")
            ELSE Front("deleteUser", Call(h, evt.data.id, NoData), NoResponse)
      [] OTHER -> Reply(200, "acknowledged")

\* route.ts 67-176, part_001 65-176: the branch taken up to the action call
Dispatch(h, evt) ==
    CASE evt.type = "user.created" ->
            IF IncompleteUserData(evt.data)
            THEN Reply(400, "missing required user data")
            ELSE Front("createUser", Call(h, evt.data.id, updateDataForDB(h, evt.data)),
                       NoResponse)
      [] evt.type = "user.updated" ->
            IF IncompleteUserData(evt.data)
            THEN Reply(400, "missing required user data")
            ELSE Front("updateUser", Call(h, evt.data.id, updateDataForDB(h, evt.data)),
                       NoResponse)
      [] evt.type = "user.deleted" ->
            IF Falsy(evt.data.id)
            THEN Reply(400, "missing user id")
            ELSE Front("deleteUser", Call(h, evt.data.id, NoData), NoResponse)
      [] OTHER -> Reply(200, "acknowledged")

\* route.ts 29-38; part_001 34 has no try, the exception leaves the handler
ParseFailure(h) ==
    IF h = "route" THEN Reply(400, "invalid JSON body")
    ELSE Reply(500, "unhandled exception")

\* the handler without the verification step
POST_unverified(r, secret) ==
    IF secret = NoSecret THEN Reply(500, "secret not configured")
    ELSE IF MissingHeaders(r) THEN Reply(400, "missing svix headers")
    ELSE IF JSON_parse(r.body) = SyntaxError THEN ParseFailure(r.handler)
    ELSE Dispatch(r.handler, JSON_parse(r.body))

\* route.ts 10-62, part_001 8-60
POST(r, secret) ==
    IF secret = NoSecret THEN Reply(500, "secret not configured")
    ELSE IF MissingHeaders(r) THEN Reply(400, "missing svix headers")
    ELSE IF JSON_parse(r.body) = SyntaxError THEN ParseFailure(r.handler)
    ELSE IF ~Verifies(r, secret) THEN Reply(400, "signature verification failed")
    ELSE Dispatch(r.handler, JSON_parse(r.body))

------------------------------------------------------------------------------
(* Actions.  Each handler invocation p runs from the request to the first  *)
(* await on the store, then one step per store operation.                  *)

Store == <<users, questions, answers>>

Finish(p, resp) ==
    /\ pc' = [pc EXCEPT ![p] = Idle]
    /\ args' = [args EXCEPT ![p] = NoArgs]
    /\ userToDelete' = [userToDelete EXCEPT ![p] = NoUser]
    /\ response' = [response EXCEPT ![p] = resp]

\* a request arrives and the handler runs up to its action call
Handle(p, r) ==
    /\ pc[p] = Idle
    /\ nreq < MaxRequests
    /\ nreq' = nreq + 1
    /\ LET f == POST(r, WEBHOOK_SECRET)
       IN  /\ pc' = [pc EXCEPT ![p] = f.pc]
           /\ args' = [args EXCEPT ![p] = f.args]
           /\ response' = [response EXCEPT ![p] = f.response]
    /\ UNCHANGED <<WEBHOOK_SECRET, users, questions, answers, userToDelete,
                   lastDeleted, lastId, read, save, toggled, edit>>

Receive(p, r) == Handle(p, r) /\ UNCHANGED request

\* the same step, with the request kept for the properties of the front part
ReceiveObserved(p, r) == Handle(p, r) /\ request' = r

\* the handler without the test for error code 11000
CreateUser_no11000(p) ==
    /\ pc[p] = "createUser"
    /\ LET newUser == User(lastId + 1, args[p].clerkId, args[p].data)
       IN  IF DuplicateKey(users, newUser)
           THEN /\ Finish(p, Response(500, "error creating user", NoUser))
                /\ UNCHANGED <<users, lastDeleted, lastId>>
           ELSE /\ users' = users \cup {newUser}
                /\ lastId' = lastId + 1
                /\ lastDeleted' = lastDeleted \ {args[p].clerkId}
                /\ Finish(p, Response(201, "user created", newUser))
    /\ UNCHANGED <<WEBHOOK_SECRET, questions, answers, request, nreq, read,
                   save, toggled, edit>>

\* the new document numbered by the size of the collection, so that the _id
\* of a deleted Account is given out again
CreateUser_reusedId(p) ==
    /\ pc[p] = "createUser"
    /\ LET newUser == User(Cardinality(users) + 1, args[p].clerkId, args[p].data)
       IN  IF DuplicateKey(users, newUser)
           THEN /\ Finish(p, Response(409, "duplicate key", NoUser))
                /\ UNCHANGED <<users, lastDeleted, lastId>>
           ELSE /\ users' = users \cup {newUser}
                /\ lastId' = lastId + 1
                /\ lastDeleted' = lastDeleted \ {args[p].clerkId}
                /\ Finish(p, Response(201, "user created", newUser))
    /\ UNCHANGED <<WEBHOOK_SECRET, questions, answers, request, nreq, read,
                   save, toggled, edit>>

\* createUser (user.action.ts 40-50) and the handler's reply (route.ts 92-111)
CreateUser(p) ==
    /\ pc[p] = "createUser"
    /\ LET newUser == User(lastId + 1, args[p].clerkId, args[p].data)
       IN  IF DuplicateKey(users, newUser)
           THEN /\ Finish(p, Response(409, "duplicate key", NoUser))
                /\ UNCHANGED <<users, lastDeleted, lastId>>
           ELSE /\ users' = users \cup {newUser}
                /\ lastId' = lastId + 1
                /\ lastDeleted' = lastDeleted \ {args[p].clerkId}
                /\ Finish(p, Response(201, "user created", newUser))
    /\ UNCHANGED <<WEBHOOK_SECRET, questions, answers, request, nreq, read,
                   save, toggled, edit>>

\* findOneAndUpdate with { upsert: true }
UpdateUser_upsert(p) ==
    /\ pc[p] = "updateUser"
    /\ LET u == User_findOne(args[p].clerkId)
           inserted == User(lastId + 1, args[p].clerkId, args[p].data)
           updatedUser == IF u = NoUser THEN inserted ELSE Updated(u, args[p].data)
       IN  IF DuplicateKey(users \ {u}, updatedUser)
           THEN /\ Finish(p, Response(500, "error updating user", NoUser))
                /\ UNCHANGED <<users, lastId>>
           ELSE /\ users' = (users \ {u}) \cup {updatedUser}
                /\ lastId' = IF u = NoUser THEN lastId + 1 ELSE lastId
                /\ Finish(p, Response(200, "user updated", updatedUser))
    /\ UNCHANGED <<WEBHOOK_SECRET, questions, answers, lastDeleted, request,
                   nreq, read, save, toggled, edit>>

\* the store's rejection of the update caught and answered as a success
UpdateUser_swallowed(p) ==
    /\ pc[p] = "updateUser"
    /\ LET u == User_findOne(args[p].clerkId)
           updatedUser == Updated(u, args[p].data)
       IN  IF u = NoUser \/ DuplicateKey(users \ {u}, updatedUser)
           THEN /\ Finish(p, Response(200, "user updated", NoUser))
                /\ UNCHANGED users
           ELSE /\ users' = (users \ {u}) \cup {updatedUser}
                /\ Finish(p, Response(200, "user updated", updatedUser))
    /\ UNCHANGED <<WEBHOOK_SECRET, questions, answers, lastDeleted, lastId,
                   request, nreq, read, save, toggled, edit>>

\* updateUser (user.action.ts 53-69) and the handler's reply (route.ts 135-147)
UpdateUser(p) ==
    /\ pc[p] = "updateUser"
    /\ LET u == User_findOne(args[p].clerkId)
           updatedUser == Updated(u, args[p].data)
       IN  IF u = NoUser
           THEN /\ Finish(p, Response(200, "user updated", NoUser))
                /\ UNCHANGED users
           ELSE IF DuplicateKey(users \ {u}, updatedUser)
           THEN /\ Finish(p, Response(500, "error updating user", NoUser))
                /\ UNCHANGED users
           ELSE /\ users' = (users \ {u}) \cup {updatedUser}
                /\ Finish(p, Response(200, "user updated", updatedUser))
    /\ UNCHANGED <<WEBHOOK_SECRET, questions, answers, lastDeleted, lastId,
                   request, nreq, read, save, toggled, edit>>

\* the reply to a deleteUser that returned null: route.ts 162-165, part_001 161-164
NotFoundReply(h) ==
    IF h = "route" THEN Response(200, "user not found", NoUser)
    ELSE Response(404, "user not found", NoUser)

\* the cleanup of the questions done at the lookup, before the account goes
DeleteFind_cleanupFirst(p) ==
    /\ pc[p] = "deleteUser"
    /\ LET u == User_findOne(args[p].clerkId)
       IN  IF u = NoUser
           THEN /\ Finish(p, NotFoundReply(args[p].handler))
                /\ UNCHANGED questions
           ELSE /\ pc' = [pc EXCEPT ![p] = "findByIdAndDelete"]
                /\ userToDelete' = [userToDelete EXCEPT ![p] = u]
                /\ questions' = {q \in questions : q.author # u._id}
                /\ UNCHANGED <<args, response>>
    /\ UNCHANGED <<WEBHOOK_SECRET, users, answers, lastDeleted, lastId,
                   request, nreq, read, save, toggled, edit>>

\* deleteUser steps 1-3 (user.action.ts 74-88)
DeleteFind(p) ==
    /\ pc[p] = "deleteUser"
    /\ LET u == User_findOne(args[p].clerkId)
       IN  IF u = NoUser
           THEN Finish(p, NotFoundReply(args[p].handler))
           ELSE /\ pc' = [pc EXCEPT ![p] = "findByIdAndDelete"]
                /\ userToDelete' = [userToDelete EXCEPT ![p] = u]
                /\ UNCHANGED <<args, response>>
    /\ UNCHANGED <<WEBHOOK_SECRET, users, questions, answers, lastDeleted,
                   lastId, request, nreq, read, save, toggled, edit>>

\* step 4 deleting by the wrong key: no document matches
DeleteAccount_noMatch(p) ==
    /\ pc[p] = "findByIdAndDelete"
    /\ pc' = [pc EXCEPT ![p] = "deleteQuestions"]
    /\ lastDeleted' = IF \E u \in users : u._id = userToDelete[p]._id
                       THEN lastDeleted \cup {args[p].clerkId}
                       ELSE lastDeleted
    /\ UNCHANGED <<WEBHOOK_SECRET, users, questions, answers, args,
                   userToDelete, response, lastId, request, nreq, read, save,
                   toggled, edit>>

\* deleteUser step 4 (user.action.ts 93)
DeleteAccount(p) ==
    /\ pc[p] = "findByIdAndDelete"
    /\ users' = {u \in users : u._id # userToDelete[p]._id}
    /\ pc' = [pc EXCEPT ![p] = "deleteQuestions"]
    /\ lastDeleted' = IF \E u \in users : u._id = userToDelete[p]._id
                       THEN lastDeleted \cup {args[p].clerkId}
                       ELSE lastDeleted
    /\ UNCHANGED <<WEBHOOK_SECRET, questions, answers, args, userToDelete,
                   response, lastId, request, nreq, read, save, toggled, edit>>

\* step 5 filtering questions by the clerkId: no document matches
DeleteQuestions_noMatch(p) ==
    /\ pc[p] = "deleteQuestions"
    /\ pc' = [pc EXCEPT ![p] = "deleteAnswers"]
    /\ UNCHANGED <<WEBHOOK_SECRET, users, questions, answers, args,
                   userToDelete, response, lastDeleted, lastId, request, nreq,
                   read, save, toggled, edit>>

\* deleteUser step 5, questions (user.action.ts 98)
DeleteQuestions(p) ==
    /\ pc[p] = "deleteQuestions"
    /\ questions' = {q \in questions : q.author # userToDelete[p]._id}
    /\ pc' = [pc EXCEPT ![p] = "deleteAnswers"]
    /\ UNCHANGED <<WEBHOOK_SECRET, users, answers, args, userToDelete,
                   response, lastDeleted, lastId, request, nreq, read, save,
                   toggled, edit>>

\* the cleanup also removing the answers left without their question
DeleteAnswers_cascade(p) ==
    /\ pc[p] = "deleteAnswers"
    /\ answers' = {a \in answers : /\ a.author # userToDelete[p]._id
                                    /\ \E q \in questions : q._id = a.question}
    /\ Finish(p, Response(200, "user deleted", userToDelete[p]))
    /\ UNCHANGED <<WEBHOOK_SECRET, users, questions, lastDeleted, lastId,
                   request, nreq, read, save, toggled, edit>>

\* deleteUser step 5, answers, its return and the reply
\* (user.action.ts 102-112, route.ts 166-167)
DeleteAnswers(p) ==
    /\ pc[p] = "deleteAnswers"
    /\ answers' = {a \in answers : a.author # userToDelete[p]._id}
    /\ Finish(p, Response(200, "user deleted", userToDelete[p]))
    /\ UNCHANGED <<WEBHOOK_SECRET, users, questions, lastDeleted, lastId,
                   request, nreq, read, save, toggled, edit>>

InCall(p) ==
    pc[p] \in {"createUser", "updateUser", "deleteUser", "findByIdAndDelete",
               "deleteQuestions", "deleteAnswers"}

\* the catch blocks logging the error and acknowledging the event
ErrorReply_acknowledged(at) == Response(200, "acknowledged", NoUser)

\* the handler's catch blocks: route.ts 110, 146, 170
ErrorReply(at) ==
    CASE at = "createUser" -> Response(500, "error creating user", NoUser)
      [] at = "updateUser" -> Response(500, "error updating user", NoUser)
      [] OTHER -> Response(500, "error deleting user", NoUser)

\* the store operation awaited by p throws (connection lost, timeout); the
\* action rethrows (user.action.ts 48, 67, 116) and the handler replies
PersistenceError(p) ==
    /\ InCall(p)
    /\ Finish(p, ErrorReply(pc[p]))
    /\ UNCHANGED <<WEBHOOK_SECRET, users, questions, answers, lastDeleted,
                   lastId, request, nreq, read, save, toggled, edit>>

------------------------------------------------------------------------------
(* toggleSaveQuestion (user.action.ts 159-180): two awaits, the lookup and *)
(* the update, with other calls running between them.                      *)

MaxToggles == 3

\* the _ids a call is made with: two the seeded stores have, one they lack
UserIds == 1..3
QuestionIds == {1, 3}
Targets == UserIds \X QuestionIds

SaveCall(at, userId, questionId, isQuestionSaved, thrown) ==
    [pc |-> at, userId |-> userId, questionId |-> questionId,
     isQuestionSaved |-> isQuestionSaved, thrown |-> thrown]
NoSave == SaveCall(Idle, 0, 0, FALSE, FALSE)

\* User.findById(userId)
User_findById(userId) ==
    IF \E u \in users : u._id = userId
    THEN CHOOSE u \in users : u._id = userId
    ELSE NoUser

\* { $pull: { saved: questionId } } or { $addToSet: { saved: questionId } }
updateOperation(isQuestionSaved, questionId, u) ==
    IF isQuestionSaved
    THEN [u EXCEPT !.saved = @ \ {questionId}]
    ELSE [u EXCEPT !.saved = @ \cup {questionId}]

\* toggleSaveQuestion up to its second await (user.action.ts 164-170)
ToggleFind(p, userId, questionId) ==
    /\ save[p].pc = Idle
    /\ toggled.started < MaxToggles
    /\ LET user == User_findById(userId)
       IN  IF user = NoUser
           THEN save' = [save EXCEPT ![p] =
                            SaveCall(Idle, userId, questionId, FALSE, TRUE)]
           ELSE save' = [save EXCEPT ![p] =
                            SaveCall("findByIdAndUpdate", userId, questionId,
                                     questionId \in user.saved, FALSE)]
    /\ toggled' = [toggled EXCEPT !.started = @ + 1]
    /\ UNCHANGED <<WEBHOOK_SECRET, users, questions, answers, pc, args, userToDelete,
                   response, lastDeleted, lastId, request, nreq, read, edit>>

\* User.findByIdAndUpdate(userId, updateOperation) and the return
\* (user.action.ts 172-174)
ToggleUpdate(p) ==
    /\ save[p].pc = "findByIdAndUpdate"
    /\ users' = {IF u._id = save[p].userId
                 THEN updateOperation(save[p].isQuestionSaved, save[p].questionId, u)
                 ELSE u : u \in users}
    /\ save' = [save EXCEPT ![p].pc = Idle]
    /\ toggled' = [toggled EXCEPT
                       !.completed[<<save[p].userId, save[p].questionId>>] = @ + 1]
    /\ UNCHANGED <<WEBHOOK_SECRET, questions, answers, pc, args, userToDelete,
                   response, lastDeleted, lastId, request, nreq, read, edit>>

------------------------------------------------------------------------------
(* Read operations of user.action.ts.  A read is one step over the store   *)
(* as it is; its parameters and what it returned are kept in read.         *)

\* the totals of getUserInfo: the two it returns, the three it hands to
\* assignBadges, and the reputation
Info(totalQuestions, totalAnswers, questionUpvotes, answerUpvotes, totalViews, reputation) ==
    [totalQuestions |-> totalQuestions, totalAnswers |-> totalAnswers,
     questionUpvotes |-> questionUpvotes, answerUpvotes |-> answerUpvotes,
     totalViews |-> totalViews, reputation |-> reputation]
NoInfo == Info(0, 0, 0, 0, 0, 0)

Returned(user, items, isNext) ==
    [user |-> user, items |-> items, isNext |-> isNext, info |-> NoInfo,
     error |-> FALSE]
Thrown ==
    [user |-> NoUser, items |-> <<>>, isNext |-> FALSE, info |-> NoInfo,
     error |-> TRUE]

\* skip: the amounts handed to the store's skip(), in call order
Read(op, key, searchQuery, page, pageSize, skip, result) ==
    [op |-> op, key |-> key, searchQuery |-> searchQuery, page |-> page,
     pageSize |-> pageSize, skip |-> skip, result |-> result]
NoRead == Read("none", Null, Null, 1, 1, <<>>, Returned(NoUser, <<>>, FALSE))

ReadStep(r) ==
    /\ read' = r
    /\ UNCHANGED <<WEBHOOK_SECRET, users, questions, answers, pc, args,
                   userToDelete, response, lastDeleted, lastId, request, nreq,
                   save, toggled, edit>>

\* the lookup with the filter on _id instead of clerkId: nothing matches
getUserById_byMongoId(userId) == NoUser

\* getUserById (user.action.ts 27-37): User.findOne({ clerkId: userId })
getUserById(userId) == User_findOne(userId)

GetUserById(userId) ==
    ReadStep(Read("getUserById", userId, Null, 1, 1, <<>>,
                  Returned(getUserById(userId), <<>>, FALSE)))

\* the upvotes and views of a document, which the documents here do not carry
Upvotes(d) == d._id
Views(q) == 2 * q._id

RECURSIVE Sum(_, _)
Sum(S, f) ==
    IF S = {} THEN 0
    ELSE LET d == CHOOSE e \in S : TRUE IN f[d] + Sum(S \ {d}, f)

\* aggregate([{ $match }, ..., { $group: { _id: null, total: { $sum } } }]):
\* one group when documents match, no group when none does
\* f gives each matched document the number that is summed
aggregate(matched, f) == IF matched = {} THEN <<>> ELSE <<Sum(matched, f)>>

Undefined == -1

\* data[0]?.total
FirstTotal(data) == IF data = <<>> THEN Undefined ELSE data[1]

\* the total used without a default
OrZero_noDefault(x) == x

\* x || 0
OrZero(x) == IF x = Undefined \/ x = 0 THEN 0 ELSE x

\* getUserInfo (user.action.ts 228-280)
GetUserInfo(userId) ==
    LET user == User_findOne(userId)
        ownQuestions == {q \in questions : q.author = user._id}
        ownAnswers == {a \in answers : a.author = user._id}
        questionUpvotesData ==
            aggregate(ownQuestions, [q \in ownQuestions |-> Upvotes(q)])
        answerUpvotesData ==
            aggregate(ownAnswers, [a \in ownAnswers |-> Upvotes(a)])
        questionViewsData ==
            aggregate(ownQuestions, [q \in ownQuestions |-> Views(q)])
    IN  IF user = NoUser
        THEN ReadStep(Read("getUserInfo", userId, Null, 1, 1, <<>>, Thrown))
        ELSE ReadStep(Read("getUserInfo", userId, Null, 1, 1, <<>>,
                 [Returned(user, <<>>, FALSE) EXCEPT
                      !.info = Info(Cardinality(ownQuestions),
                                    Cardinality(ownAnswers),
                                    OrZero(FirstTotal(questionUpvotesData)),
                                    OrZero(FirstTotal(answerUpvotesData)),
                                    OrZero(FirstTotal(questionViewsData)),
                                    user.reputation)]))

Min(a, b) == IF a < b THEN a ELSE b

\* sort(...): newest first; _id, generated in creation order, stands for the
\* sort keys (joinedAt, createdAt, upvotes), which the documents here lack
RECURSIVE SortDesc(_)
SortDesc(S) ==
    IF S = {} THEN <<>>
    ELSE LET top == CHOOSE d \in S : \A e \in S : e._id <= d._id
         IN  <<top>> \o SortDesc(S \ {top})

\* skip(n).limit(m) of a cursor, n >= 0 and m >= 1
Window(all, n, m) == SubSeq(all, n + 1, Min(Len(all), n + m))

skipAmount(page, pageSize) == (page - 1) * pageSize

\* isNext compared with the skip amount alone
Page_noReturned(matching, page, pageSize, negativeSkip) ==
    LET all == SortDesc(matching)
        skip == skipAmount(page, pageSize)
    IN  IF skip < 0 /\ negativeSkip = "throws" THEN Thrown
        ELSE LET items == Window(all, IF skip < 0 THEN 0 ELSE skip, pageSize)
             IN  Returned(NoUser, items, Cardinality(matching) > skip)

\* countDocuments(query), find(query).sort().skip(skipAmount).limit(pageSize)
\* and the isNext computed from them (user.action.ts 142-149, 209-217,
\* 290-299, 315-324).  The store is handed skipAmount as it is; given a
\* negative amount it throws or, depending on its version, skips nothing.
Page(matching, page, pageSize, negativeSkip) ==
    LET all == SortDesc(matching)
        skip == skipAmount(page, pageSize)
    IN  IF skip < 0 /\ negativeSkip = "throws" THEN Thrown
        ELSE LET items == Window(all, IF skip < 0 THEN 0 ELSE skip, pageSize)
             IN  Returned(NoUser, items, Cardinality(matching) > skip + Len(items))

NegativeSkip == {"throws", "skips nothing"}

\* the search queries: absent, empty, a letter in the other case, a letter
\* that occurs nowhere, and queries with regex metacharacters
SearchQueries ==
    {Null, <<>>, <<"B">>, <<"z">>, <<".">>, <<"a", ".", "b">>, <<"(">>}

\* the pages and page sizes the list operations are called with
Pages == -1..MaxPage
PageSizes == 1..MaxPageSize

\* the characters of the class [.*+?^${}()|[\]\\] that occur in the queries here
MetaChars == {".", "(", "\\"}

\* searchQuery.replace(/[.*+?^${}()|[\]\\]/g, '\\$&') (user.action.ts 130)
RECURSIVE escapeRegExp(_)
escapeRegExp(q) ==
    IF q = <<>> THEN <<>>
    ELSE (IF Head(q) \in MetaChars THEN <<"\\", Head(q)>> ELSE <<Head(q)>>)
         \o escapeRegExp(Tail(q))

\* new RegExp(pattern, 'i'): the compiled pattern, a sequence of literals and
\* wildcards, or a SyntaxError for an unterminated group or a trailing backslash
Literal(c) == [any |-> FALSE, c |-> c]
AnyChar == [any |-> TRUE, c |-> "."]
SyntaxErrorRegExp == [valid |-> FALSE, elems |-> <<>>]
Then(e, regex) ==
    IF regex.valid THEN [valid |-> TRUE, elems |-> <<e>> \o regex.elems] ELSE regex

RECURSIVE RegExp(_)
RegExp(pattern) ==
    IF pattern = <<>> THEN [valid |-> TRUE, elems |-> <<>>]
    ELSE IF Head(pattern) = "\\"
    THEN IF Len(pattern) = 1 THEN SyntaxErrorRegExp
         ELSE Then(Literal(pattern[2]), RegExp(SubSeq(pattern, 3, Len(pattern))))
    ELSE IF Head(pattern) = "(" THEN SyntaxErrorRegExp
    ELSE IF Head(pattern) = "." THEN Then(AnyChar, RegExp(Tail(pattern)))
    ELSE Then(Literal(Head(pattern)), RegExp(Tail(pattern)))

\* regex.test(text) with the i flag
test(regex, text) ==
    \E off \in 0..(Len(text) - Len(regex.elems)) :
        \A i \in 1..Len(regex.elems) :
            \/ regex.elems[i].any
            \/ LowerChar(regex.elems[i].c) = LowerChar(text[off + i])

\* user.action.ts 130-131
UserPattern(searchQuery) == RegExp(escapeRegExp(searchQuery))

\* getAllUsers (user.action.ts 122-156)
GetAllUsers(searchQuery, page, pageSize, negativeSkip) ==
    LET regex == UserPattern(searchQuery)
        query == IF Falsy(searchQuery) THEN users
                 ELSE {u \in users : test(regex, u.name) \/ test(regex, u.username)}
    IN  IF ~Falsy(searchQuery) /\ ~regex.valid
        THEN ReadStep(Read("getAllUsers", Null, searchQuery, page, pageSize, <<>>, Thrown))
        ELSE ReadStep(Read("getAllUsers", Null, searchQuery, page, pageSize,
                           <<skipAmount(page, pageSize)>>,
                           Page(query, page, pageSize, negativeSkip)))

\* the questions counted by the number of saved references
Saved_countReferences(user) ==
    {q \in questions : q._id \in user.saved}
    \cup {Question(id, 0) : id \in {i \in user.saved : \A q \in questions : q._id # i}}

\* { _id: { $in: user.saved } } (user.action.ts 195)
Saved(user) == {q \in questions : q._id \in user.saved}

\* getSavedQuestions (user.action.ts 183-224); the pattern is built from the
\* query as it is (197)
GetSavedQuestions(clerkId, searchQuery, page, pageSize, negativeSkip) ==
    LET user == User_findOne(clerkId)
        regex == RegExp(searchQuery)
        query == IF Falsy(searchQuery) THEN Saved(user)
                 ELSE {q \in Saved(user) : test(regex, q.title)}
    IN  IF user = NoUser
        THEN ReadStep(Read("getSavedQuestions", clerkId, searchQuery, page, pageSize,
                           <<>>, Returned(NoUser, <<>>, FALSE)))
        ELSE IF ~Falsy(searchQuery) /\ ~regex.valid
        THEN ReadStep(Read("getSavedQuestions", clerkId, searchQuery, page, pageSize,
                           <<>>, Thrown))
        ELSE ReadStep(Read("getSavedQuestions", clerkId, searchQuery, page, pageSize,
                           <<skipAmount(page, pageSize)>>,
                           Page(query, page, pageSize, negativeSkip)))

\* getUserQuestions (user.action.ts 283-305); userId 0 is a missing userId
GetUserQuestions(userId, page, pageSize, negativeSkip) ==
    IF userId = 0
    THEN ReadStep(Read("getUserQuestions", userId, Null, page, pageSize, <<>>, Thrown))
    ELSE ReadStep(Read("getUserQuestions", userId, Null, page, pageSize,
                       <<skipAmount(page, pageSize)>>,
                       Page({q \in questions : q.author = userId}, page, pageSize,
                            negativeSkip)))

\* getUserAnswers (user.action.ts 308-330)
GetUserAnswers(userId, page, pageSize, negativeSkip) ==
    IF userId = 0
    THEN ReadStep(Read("getUserAnswers", userId, Null, page, pageSize, <<>>, Thrown))
    ELSE ReadStep(Read("getUserAnswers", userId, Null, page, pageSize,
                       <<skipAmount(page, pageSize)>>,
                       Page({a \in answers : a.author = userId}, page, pageSize,
                            negativeSkip)))

------------------------------------------------------------------------------
------------------------------------------------------------------------------
(* The question edit page (app/(root)/question/edit/[id]/page.tsx): two    *)
(* awaits, getUserById and getQuestionById, then the authorization check.  *)

\* what a page load ended with
Outcome(kind, detail) ==
    [kind |-> kind, detail |-> detail, mongoUserId |-> 0, questionDetails |-> <<>>]
NoOutcome == Outcome("none", "")
\* <Question type="Edit" mongoUserId=... questionDetails=... />
Rendered(mongoUserId, questionDetails) ==
    [kind |-> "form", detail |-> "Edit",
     mongoUserId |-> mongoUserId, questionDetails |-> <<questionDetails>>]

EditState(at, clerkId, id, mongoUser, outcome) ==
    [pc |-> at, clerkId |-> clerkId, id |-> id, mongoUser |-> mongoUser,
     outcome |-> outcome]
NoEdit == EditState(Idle, Null, 0, NoUser, NoOutcome)

\* auth().userId: the signed-in requester's clerkId, null when signed out
Requesters == {Null, ID1, ID2}
\* params.id: three questions the seeded stores can have, and one they lack
ParamIds == 1..3

NoQuestion == [_id |-> 0]

\* getQuestionById: the Question with its author populated, the author being
\* null when no Account has that _id
getQuestionById(questionId) ==
    IF \E q \in questions : q._id = questionId
    THEN LET q == CHOOSE x \in questions : x._id = questionId
         IN  [q EXCEPT !.author = User_findById(q.author)]
    ELSE NoQuestion

\* the check passing for every requester
isAuthor_anyone(result, clerkId, mongoUser) == TRUE

\* result.author?.clerkId === clerkId ||
\* result.author?._id.toString() === mongoUser._id.toString()
isAuthor(result, clerkId, mongoUser) ==
    \/ result.author # NoUser /\ result.author.clerkId = clerkId
    \/ result.author # NoUser /\ result.author._id = mongoUser._id

EditStep(e) ==
    /\ edit' = e
    /\ UNCHANGED <<WEBHOOK_SECRET, users, questions, answers, pc, args, userToDelete,
                   response, lastDeleted, lastId, request, nreq, read, save, toggled>>

\* steps 1-3 of the page, to the await of getQuestionById
EditPageLoad(clerkId, id) ==
    /\ edit.pc = Idle
    /\ IF clerkId = Null
       THEN EditStep(EditState(Idle, clerkId, id, NoUser,
                               Outcome("redirect", "/sign-in")))
       ELSE LET mongoUser == getUserById(clerkId)
            IN  IF mongoUser = NoUser
                THEN EditStep(EditState(Idle, clerkId, id, NoUser,
                         Outcome("error", "User profile not found in database")))
                ELSE EditStep(EditState("getQuestionById", clerkId, id, mongoUser,
                                        NoOutcome))

\* steps 4-7: the question, the authorization check and the form; notFound
\* is what getQuestionById does for an id without a Question, return null or
\* throw
EditPageRender(notFound) ==
    /\ edit.pc = "getQuestionById"
    /\ LET result == getQuestionById(edit.id)
           End(outcome) ==
               EditStep(EditState(Idle, edit.clerkId, edit.id, edit.mongoUser, outcome))
       IN  IF result = NoQuestion
           THEN IF notFound = "throws"
                THEN End(Outcome("error", "Could not load question details"))
                ELSE End(Outcome("error", "Question not found."))
           ELSE IF ~isAuthor(result, edit.clerkId, edit.mongoUser)
           THEN End(Outcome("error", "You are not authorized to edit this question."))
           ELSE End(Rendered(edit.mongoUser._id, result))

NotFound == {"throws", "returns null"}

InitFrom(stores) ==
    /\ WEBHOOK_SECRET \in {SECRET, NoSecret}
    /\ \E s \in stores :
           /\ users = s.users
           /\ questions = s.questions
           /\ answers = s.answers
           /\ lastId = Cardinality(s.users)
    /\ pc = [p \in Procs |-> Idle]
    /\ args = [p \in Procs |-> NoArgs]
    /\ userToDelete = [p \in Procs |-> NoUser]
    /\ response = [p \in Procs |-> NoResponse]
    /\ lastDeleted = {}
    /\ request = NoRequest
    /\ nreq = 0
    /\ read = NoRead
    /\ save = [p \in Procs |-> NoSave]
    /\ toggled = [started |-> 0, completed |-> [t \in Targets |-> 0]]
    /\ edit = NoEdit

Init == InitFrom(Stores)

Next ==
    \/ \E p \in Procs, r \in Requests : Receive(p, r)
    \/ \E p \in Procs : CreateUser(p)
    \/ \E p \in Procs : UpdateUser(p)
    \/ \E p \in Procs : DeleteFind(p)
    \/ \E p \in Procs : DeleteAccount(p)
    \/ \E p \in Procs : DeleteQuestions(p)
    \/ \E p \in Procs : DeleteAnswers(p)
    \/ \E p \in Procs : PersistenceError(p)

Spec == Init /\ [][Next]_vars

\* One invocation at a time, over every request, the request kept in the state.
NextFront ==
    \/ \E r \in AllRequests : ReceiveObserved(1, r)
    \/ CreateUser(1)
    \/ UpdateUser(1)
    \/ DeleteFind(1)
    \/ DeleteAccount(1)
    \/ DeleteQuestions(1)
    \/ DeleteAnswers(1)
    \/ PersistenceError(1)

SpecFront == Init /\ [][NextFront]_vars

\* One webhook invocation at a time, interleaved with the read operations.
NextRead ==
    \/ \E r \in Requests : Receive(1, r)
    \/ CreateUser(1)
    \/ UpdateUser(1)
    \/ DeleteFind(1)
    \/ DeleteAccount(1)
    \/ DeleteQuestions(1)
    \/ DeleteAnswers(1)
    \/ PersistenceError(1)
    \/ \E userId \in {ID1, ID2} : GetUserById(userId)
    \/ \E clerkId \in {ID1, ID2}, pageSize \in PageSizes :
           GetSavedQuestions(clerkId, Null, 1, pageSize, "throws")
    \/ \E userId \in {ID1, ID2} : GetUserInfo(userId)

SpecRead == Init /\ [][NextRead]_vars

\* concurrent toggleSaveQuestion calls over a seeded store
NextToggle ==
    \/ \E p \in Procs, userId \in UserIds, questionId \in QuestionIds :
           ToggleFind(p, userId, questionId)
    \/ \E p \in Procs : ToggleUpdate(p)

SpecToggle == Init /\ [][NextToggle]_vars

\* the deleted events delivered while the edit page loads
EditRequests ==
    {Delivery("route", Compact([type |-> "user.deleted",
                                data |-> [id |-> id, deleted |-> TRUE]]), NOW) :
        id \in {ID1, ID2}}

\* Loads of the question edit page, interleaved with one webhook invocation
\* at a time deleting Accounts.
NextEdit ==
    \/ \E r \in EditRequests : Receive(1, r)
    \/ DeleteFind(1)
    \/ DeleteAccount(1)
    \/ DeleteQuestions(1)
    \/ DeleteAnswers(1)
    \/ \E clerkId \in Requesters, id \in ParamIds : EditPageLoad(clerkId, id)
    \/ \E notFound \in NotFound : EditPageRender(notFound)

SpecEdit == Init /\ [][NextEdit]_vars

\* The list operations over a store at rest, for every page and page size.
InitList == InitFrom(ListStores)

NextList ==
    \/ \E page \in Pages, pageSize \in PageSizes, n \in NegativeSkip :
           GetAllUsers(Null, page, pageSize, n)
    \/ \E searchQuery \in SearchQueries, pageSize \in PageSizes :
           GetAllUsers(searchQuery, 1, pageSize, "throws")
    \/ \E clerkId \in {ID1, ID2}, page \in Pages, pageSize \in PageSizes,
          n \in NegativeSkip :
           GetSavedQuestions(clerkId, Null, page, pageSize, n)
    \/ \E clerkId \in {ID1, ID2}, searchQuery \in SearchQueries, pageSize \in PageSizes :
           GetSavedQuestions(clerkId, searchQuery, 1, pageSize, "throws")
    \/ \E userId \in 0..2, page \in Pages, pageSize \in PageSizes, n \in NegativeSkip :
           GetUserQuestions(userId, page, pageSize, n)
    \/ \E userId \in 0..2, page \in Pages, pageSize \in PageSizes, n \in NegativeSkip :
           GetUserAnswers(userId, page, pageSize, n)

SpecList == InitList /\ [][NextList]_vars

------------------------------------------------------------------------------
(* Properties.                                                             *)

StoreWrite == Store' # Store

\* verification is reached and throws
VerificationFails(r) ==
    /\ WEBHOOK_SECRET # NoSecret
    /\ ~MissingHeaders(r)
    /\ JSON_parse(r.body) # SyntaxError
    /\ ~Verifies(r, WEBHOOK_SECRET)

\* C1: no request reaches createUser, updateUser or deleteUser, and so none
\* writes to the store, unless its own signature verification succeeded; a
\* request whose verification fails is answered 400.
C1_SyncOnlyAfterVerification ==
    [][/\ InCall(1)' => WEBHOOK_SECRET # NoSecret /\ Verifies(request', WEBHOOK_SECRET)
       /\ StoreWrite => InCall(1)
       /\ nreq' # nreq /\ VerificationFails(request') =>
              response'[1].status = 400 /\ ~InCall(1)']_vars

\* C1 witness: a verified request is suspended at createUser
C1_Witness ==
    /\ pc[1] = "createUser"
    /\ Verifies(request, WEBHOOK_SECRET)

\* the provider's deliveries that are within the replay window
ValidlySigned(r) ==
    /\ r.svix_signature = Sign(SECRET, r.svix_id, r.svix_timestamp, r.body)
    /\ r.svix_timestamp = NOW
    /\ JSON_parse(r.body) # SyntaxError

\* C2: with the secret configured, every unmodified validly signed body passes
\* verification, and a delivery with one byte of its body or of a transport
\* header changed fails it and is answered 400 (stated for the changed bodies
\* that are still well-formed, the ones that reach the verifier).
C2_ExactBytes ==
    WEBHOOK_SECRET = SECRET =>
        /\ request # NoRequest /\ ValidlySigned(request) =>
               response[1].message # "signature verification failed"
        /\ request \in MutatedRequests /\ JSON_parse(request.body) # SyntaxError =>
               response[1] = Response(400, "signature verification failed", NoUser)

HeaderAbsent(r) ==
    \/ r.svix_id = NoHeader
    \/ r.svix_timestamp = NoHeader
    \/ r.svix_signature = NoSignature

\* C3 as stated: a request lacking one of the three transport headers is
\* answered 400 and writes nothing.
C3_MissingHeader400 ==
    [][nreq' # nreq /\ HeaderAbsent(request') =>
           response'[1].status = 400 /\ ~InCall(1)' /\ ~StoreWrite]_vars

\* C3 amended: a request lacking one of the three transport headers is
\* answered 400 when the signing secret is configured and 500 when it is not,
\* and in both cases reaches no action and writes nothing.
C3_MissingHeaderRefused ==
    [][nreq' # nreq /\ HeaderAbsent(request') =>
           /\ response'[1].status = IF WEBHOOK_SECRET = NoSecret THEN 500 ELSE 400
           /\ ~InCall(1)'
           /\ ~StoreWrite]_vars

\* C3 witness: a request without its signature header was answered 400
C3_Witness ==
    /\ request # NoRequest
    /\ request.svix_signature = NoSignature
    /\ request.svix_id # NoHeader
    /\ request.svix_timestamp # NoHeader
    /\ response[1].status = 400
    /\ users = {}

------------------------------------------------------------------------------
(* Properties of the account actions under concurrent requests (Spec).     *)

\* C4: at most one Account has a given clerkId, in every reachable state,
\* two created events for one id racing included.
C4_UniqueClerkId ==
    \A u, v \in users : u.clerkId = v.clerkId => u = v

\* C4 witness: two created events for the same, not yet existing id are both
\* suspended at createUser
C4_Witness ==
    /\ pc[1] = "createUser"
    /\ pc[2] = "createUser"
    /\ args[1].clerkId = args[2].clerkId
    /\ \A u \in users : u.clerkId # args[1].clerkId

Taken(p) ==
    \E u \in users :
        \/ u.clerkId = args[p].clerkId
        \/ u.username = args[p].data.username
        \/ u.email = args[p].data.email

\* C5: a created event whose clerkId, username or email is already taken is
\* answered 409 and leaves the User collection as it was, so an id created
\* twice has exactly one Account.
C5_DuplicateCreate409 ==
    [][\A p \in Procs :
           CreateUser(p) /\ Taken(p) =>
               /\ response'[p].status = 409
               /\ users' = users
               /\ Cardinality({u \in users' : u.clerkId = args[p].clerkId}) <= 1]_vars

\* C5 witness: a created event for an id that has an Account was answered 409
\* and that Account is still the only one
C5_Witness ==
    \E p \in Procs :
        /\ response[p] = Response(409, "duplicate key", NoUser)
        /\ users = {AccountA}
        /\ nreq = 1

\* C6: once deleteUser has returned an Account, no User has its _id and no
\* Question and no Answer has it as author.
C6_CascadeComplete ==
    \A p \in Procs :
        response[p].message = "user deleted" =>
            /\ \A u \in users : u._id # response[p].user._id
            /\ \A q \in questions : q.author # response[p].user._id
            /\ \A a \in answers : a.author # response[p].user._id

\* C6 witness: AccountA, author of a question and an answer, was deleted and
\* only the other account's content is left
C6_Witness ==
    \E p \in Procs :
        /\ response[p] = Response(200, "user deleted", AccountA)
        /\ questions = {Question(2, 2)}
        /\ answers = {Answer(2, 2, 1)}

Cascading(p) == pc[p] \in {"deleteQuestions", "deleteAnswers"}

\* C7: whenever no deleteUser is between its account removal and the end of
\* its cascade, every Question and every Answer has an existing author.
C7_NoOrphans ==
    (\A p \in Procs : ~Cascading(p)) =>
        /\ \A q \in questions : \E u \in users : u._id = q.author
        /\ \A a \in answers : \E u \in users : u._id = a.author

\* C8: a deleteUser that finds the Account returns it; a deleteUser for a
\* clerkId whose Account an earlier deleteUser removed, none created since,
\* returns null without an error and changes nothing.
C8_DeleteTwice ==
    [][\A p \in Procs :
           /\ DeleteAnswers(p) =>
                  /\ response'[p].user = userToDelete[p]
                  /\ response'[p].user.clerkId = args[p].clerkId
           /\ DeleteFind(p) /\ args[p].clerkId \in lastDeleted =>
                  /\ response'[p].message = "user not found"
                  /\ response'[p].user = NoUser
                  /\ pc'[p] = Idle
                  /\ ~StoreWrite]_vars

\* C8 witness: AccountA was deleted by one request and a second deleted event
\* for its id found nothing
C8_Witness ==
    \E p, q \in Procs :
        /\ response[p] = Response(200, "user deleted", AccountA)
        /\ response[q].message = "user not found"
        /\ lastDeleted = {ID1}
        /\ users = {AccountB}

NoMatch(p) == \A u \in users : u.clerkId # args[p].clerkId

\* C9: an updated or deleted event for a clerkId without an Account is
\* answered 200 and changes nothing.
C9_NotFoundIs200 ==
    [][\A p \in Procs :
           (UpdateUser(p) \/ DeleteFind(p)) /\ NoMatch(p) =>
               response'[p].status = 200 /\ ~StoreWrite]_vars

\* C10: updateUser for a clerkId without an Account returns null, raises no
\* error and leaves the User collection as it was.
C10_UpdateNeverCreates ==
    [][\A p \in Procs :
           UpdateUser(p) /\ NoMatch(p) =>
               /\ response'[p] = Response(200, "user updated", NoUser)
               /\ users' = users]_vars

\* C10 witness: an updated event on the empty store was answered with a null
\* user and the store is still empty
C10_Witness ==
    \E p \in Procs :
        /\ response[p] = Response(200, "user updated", NoUser)
        /\ users = {}

\* C11: a successful updated event replaces the matched Account by a document
\* with the event's normalized name, username, email and picture and the
\* Account's own _id, clerkId, saved and reputation; every other Account, every
\* Question and every Answer stays as it was; and no step of any operation
\* changes the clerkId of an Account.
C11_UpdateFrame ==
    [][/\ \A p \in Procs :
              UpdateUser(p) /\ response'[p].user # NoUser =>
                  /\ response'[p].status = 200
                  /\ \E u \in users :
                         LET v == response'[p].user
                         IN  /\ u.clerkId = args[p].clerkId
                             /\ users' = (users \ {u}) \cup {v}
                             /\ v.name = args[p].data.name
                             /\ v.username = args[p].data.username
                             /\ v.email = args[p].data.email
                             /\ v.picture = args[p].data.picture
                             /\ v._id = u._id
                             /\ v.clerkId = u.clerkId
                             /\ v.saved = u.saved
                             /\ v.reputation = u.reputation
                  /\ questions' = questions
                  /\ answers' = answers
       /\ \A u \in users, v \in users' : u._id = v._id => u.clerkId = v.clerkId]_vars

\* C11 witness: AccountB, with a saved question and reputation, was renamed
\* to bob by an updated event after AccountA had been deleted
C11_Witness ==
    \E p \in Procs :
        /\ response[p].message = "user updated"
        /\ response[p].user = Updated(AccountB, updateDataForDB("route", PB))
        /\ users = {response[p].user}
        /\ response[p].user.saved = {1, 2}
        /\ response[p].user.username # AccountB.username

\* C19: when the store operation awaited by createUser, updateUser or
\* deleteUser throws an error that is not a duplicate key, the request is
\* answered with status 500 and the invocation ends.
C19_PersistenceError500 ==
    [][\A p \in Procs :
           PersistenceError(p) =>
               /\ response'[p].status = 500
               /\ response'[p].status \notin 200..499
               /\ pc'[p] = Idle]_vars

\* C19 witness: a created event on the empty store was answered 500 and the
\* store is still empty
C19_Witness ==
    \E p \in Procs :
        /\ response[p] = Response(500, "error creating user", NoUser)
        /\ users = {}

------------------------------------------------------------------------------
(* Properties of the read operations (SpecRead).                           *)

\* C12: a createUser that succeeds inserts an Account with the clerkId, name,
\* username, email and picture it was given; an Account stays as it is across
\* every step that is not an update or delete event for its clerkId; and
\* getUserById returns the Account that has the clerkId asked for.  So a lookup
\* after a successful create returns the created fields until such an event.
C12_CreateThenGet ==
    [][/\ CreateUser(1) /\ response'[1].status = 201 =>
              LET v == response'[1].user
              IN  /\ v \in users'
                  /\ v.clerkId = args[1].clerkId
                  /\ v.name = args[1].data.name
                  /\ v.username = args[1].data.username
                  /\ v.email = args[1].data.email
                  /\ v.picture = args[1].data.picture
       /\ \A u \in users :
              \/ u \in users'
              \/ /\ pc[1] \in {"updateUser", "findByIdAndDelete"}
                 /\ args[1].clerkId = u.clerkId
       /\ \A userId \in {ID1, ID2} :
              GetUserById(userId) =>
                  \A u \in users : u.clerkId = userId => read'.result.user = u]_vars

\* C12 witness: the Account a created event for ID2 inserted is what a later
\* getUserById for ID2 returned
C12_Witness ==
    /\ response[1].status = 201
    /\ read.op = "getUserById"
    /\ read.key = ID2
    /\ read.result.user = response[1].user
    /\ read.result.user.email = "b@x.com"

\* C24: a deleteUser call on an existing Account goes through its steps in
\* this order, each step changing only what is named: the Account is read and
\* kept as the snapshot (nothing is deleted), then the Account with the
\* snapshot's _id is deleted, then the Questions of that author, then the
\* Answers of that author; the snapshot is not changed while the call runs
\* and is the value returned with the reply.
C24_DeleteOrder ==
    [][\A p \in Procs :
          /\ pc[p] = "deleteUser" /\ pc'[p] # pc[p] =>
                 /\ Store' = Store
                 /\ pc'[p] = "findByIdAndDelete" =>
                        /\ userToDelete'[p] \in users
                        /\ userToDelete'[p].clerkId = args[p].clerkId
          /\ pc[p] = "findByIdAndDelete" /\ pc'[p] # pc[p] =>
                 /\ questions' = questions /\ answers' = answers
                 /\ \/ /\ pc'[p] = "deleteQuestions"
                       /\ users' = {u \in users : u._id # userToDelete[p]._id}
                    \/ /\ pc'[p] = Idle /\ response'[p].status = 500
                       /\ users' = users
          /\ pc[p] = "deleteQuestions" /\ pc'[p] # pc[p] =>
                 /\ users' = users /\ answers' = answers
                 /\ \/ /\ pc'[p] = "deleteAnswers"
                       /\ questions' =
                              {q \in questions : q.author # userToDelete[p]._id}
                    \/ /\ pc'[p] = Idle /\ response'[p].status = 500
                       /\ questions' = questions
          /\ pc[p] = "deleteAnswers" /\ pc'[p] # pc[p] =>
                 /\ users' = users /\ questions' = questions
                 /\ pc'[p] = Idle
                 /\ \/ /\ response'[p].status = 200
                       /\ response'[p].user = userToDelete[p]
                       /\ answers' =
                              {a \in answers : a.author # userToDelete[p]._id}
                    \/ /\ response'[p].status = 500
                       /\ answers' = answers
          /\ pc[p] \in {"findByIdAndDelete", "deleteQuestions"} /\ pc'[p] # Idle =>
                 userToDelete'[p] = userToDelete[p]]_vars

\* C24 witness: a delete of an Account that had a Question and an Answer was
\* answered with the snapshot, and the Account and its content are gone
C24_Witness ==
    \E p \in Procs :
        /\ response[p].message = "user deleted"
        /\ response[p].user = AccountA
        /\ \A u \in users : u._id # AccountA._id
        /\ \A q \in questions : q.author # AccountA._id
        /\ \A a \in answers : a.author # AccountA._id
        /\ answers # {}

\* the _id of the Account a running deleteUser call of p is about
Deleting(p) ==
    IF pc[p] = "deleteUser" THEN User_findOne(args[p].clerkId)._id
    ELSE userToDelete[p]._id

\* C25: no step of a deleteUser call adds anything to the store or removes
\* anything but the Account the call is about and Questions and Answers of
\* which that Account is the author: every other Account, with its saved set
\* and reputation, and every Question and Answer of another author, Answers
\* to the deleted Questions included, is in the store unchanged afterwards.
C25_DeleteFrame ==
    [][\A p \in Procs :
          /\ pc[p] \in {"deleteUser", "findByIdAndDelete", "deleteQuestions",
                         "deleteAnswers"}
          /\ pc'[p] # pc[p]
          => /\ users' \subseteq users
             /\ questions' \subseteq questions
             /\ answers' \subseteq answers
             /\ \A u \in users : u._id # Deleting(p) => u \in users'
             /\ \A q \in questions : q.author # Deleting(p) => q \in questions'
             /\ \A a \in answers : a.author # Deleting(p) => a \in answers']_vars

\* C25 witness: AccountA was deleted with its Question; AccountB, which saved
\* that Question, and AccountB's Answer to it are still there unchanged
C25_Witness ==
    \E p \in Procs :
        /\ response[p].message = "user deleted"
        /\ response[p].user._id = AccountA._id
        /\ Question(1, 1) \notin questions
        /\ AccountB \in users
        /\ Question(2, 2) \in questions
        /\ Answer(2, 2, 1) \in answers

\* C28: when a created event succeeds for a clerkId whose Account a deleteUser
\* removed, whether or not its cleanup has finished, the new Account has that
\* clerkId and an _id that no Account in the store and no Account returned by
\* a deleteUser has, and no Question and no Answer has the new Account as its
\* author.
C28_DeleteThenCreate ==
    [][\A p \in Procs :
           /\ pc[p] = "createUser"
           /\ response'[p].status = 201
           /\ args[p].clerkId \in lastDeleted
           => LET newUser == response'[p].user
              IN  /\ newUser \in users'
                  /\ newUser.clerkId = args[p].clerkId
                  /\ \A u \in users : u._id # newUser._id
                  /\ \A q \in Procs :
                         response[q].message = "user deleted" =>
                             response[q].user._id # newUser._id
                  /\ \A q \in questions' : q.author # newUser._id
                  /\ \A a \in answers' : a.author # newUser._id]_vars

\* C28 witness: AccountA, author of a Question and an Answer, was deleted and
\* a created event for its clerkId then inserted an Account with another _id
C28_Witness ==
    \E p, q \in Procs :
        /\ response[q] = Response(200, "user deleted", AccountA)
        /\ response[p].status = 201
        /\ response[p].user.clerkId = ID1
        /\ response[p].user._id # AccountA._id
        /\ response[p].user \in users
        /\ \A x \in questions : x.author # response[p].user._id

\* p is in a deleteUser call
InDelete(p) ==
    pc[p] \in {"deleteUser", "findByIdAndDelete", "deleteQuestions", "deleteAnswers"}

\* C29: when a deleted event ends, the store not having failed, while another
\* invocation is processing, or has answered with the Account, a deleted event
\* for the same clerkId, its response has status 200; and once both have
\* ended there is no Account with that clerkId, none having been created
\* since, and no Question or Answer of the deleted Account.
C29_ConcurrentDeletes ==
    [][\A p \in Procs, q \in Procs :
           /\ p # q
           /\ InDelete(p) /\ pc'[p] = Idle
           /\ response'[p].message # "error deleting user"
           /\ \/ InDelete(q) /\ args[q].clerkId = args[p].clerkId
              \/ /\ response[q].message = "user deleted"
                 /\ response[q].user.clerkId = args[p].clerkId
           => /\ response'[p].status = 200
              /\ response[q].message = "user deleted" =>
                     /\ args[p].clerkId \in lastDeleted' =>
                            \A u \in users' : u.clerkId # args[p].clerkId
                     /\ \A x \in questions' : x.author # response[q].user._id
                     /\ \A a \in answers' : a.author # response[q].user._id]_vars

------------------------------------------------------------------------------
(* Properties of the responses (SpecFront).                                *)

\* the status the outcome named by a response's message is said to have
StatedStatus(message) ==
    CASE message \in {"missing svix headers", "signature verification failed",
                      "invalid JSON body", "unhandled exception",
                      "missing required user data", "missing user id"} -> 400
      [] message = "duplicate key" -> 409
      [] message \in {"error creating user", "error updating user",
                      "error deleting user", "secret not configured"} -> 500
      [] message = "user created" -> 201
      [] OTHER -> 200

\* C13: every response a webhook request was given has the status stated
\* for its outcome (400 for missing headers, failed verification, malformed
\* body and incomplete payload, 409 for a duplicate, 500 for another failure,
\* 201 for a created Account, 200 for an update, a delete, a no-op and an
\* unrecognized event), and no status outside 200, 201, 400, 409, 500 occurs.
C13_StatusByOutcome ==
    response[1] # NoResponse =>
        /\ response[1].status \in {200, 201, 400, 409, 500}
        /\ response[1].status = StatedStatus(response[1].message)

\* the request passed the secret, header, parse and signature checks
Verified(r) ==
    /\ WEBHOOK_SECRET # NoSecret
    /\ ~MissingHeaders(r)
    /\ JSON_parse(r.body) # SyntaxError
    /\ Verifies(r, WEBHOOK_SECRET)

\* the steps of the operation an event kind selects
Selected(type) ==
    CASE type = "user.created" -> {"createUser"}
      [] type = "user.updated" -> {"updateUser"}
      [] type = "user.deleted" -> {"deleteUser", "findByIdAndDelete",
                                   "deleteQuestions", "deleteAnswers"}
      [] OTHER -> {}

\* the payload passes the handler's validation
Dispatchable(evt) ==
    CASE evt.type \in {"user.created", "user.updated"} ->
            /\ evt.data.id \notin {Null, <<>>}
            /\ evt.data.email_addresses \notin {Null, <<>>}
            /\ evt.data.email_addresses[1] \notin {NullAtom, ""}
            /\ evt.data.image_url \notin {NullAtom, ""}
      [] evt.type = "user.deleted" -> evt.data.id \notin {Null, <<>>}
      [] OTHER -> TRUE

\* what C14 says of the requests in Which: a verified one of them enters the
\* operation its kind selects, or none and is acknowledged with 200 when its
\* kind selects none; the invocation runs only that operation, once, up to
\* the response; and only that operation writes to the store.
OneOperationByKind(Which(_)) ==
    /\ nreq' # nreq /\ Verified(request') /\ Which(JSON_parse(request'.body)) =>
           LET steps == Selected(JSON_parse(request'.body).type)
           IN  IF steps = {}
               THEN /\ pc'[1] = Idle
                    /\ response'[1].status = 200
                    /\ ~StoreWrite
               ELSE /\ pc'[1] \in steps
                    /\ pc'[1] \in {"createUser", "updateUser", "deleteUser"}
    /\ pc[1] # Idle /\ pc'[1] # pc[1] =>
           \/ pc'[1] = Idle /\ response'[1] # NoResponse
           \/ <<pc[1], pc'[1]>> \in {<<"deleteUser", "findByIdAndDelete">>,
                                     <<"findByIdAndDelete", "deleteQuestions">>,
                                     <<"deleteQuestions", "deleteAnswers">>}
    /\ StoreWrite => pc[1] \in Selected(JSON_parse(request.body).type)

AnyEvent(evt) == TRUE

\* C14 as stated: every verified event reaches its response via exactly the
\* one operation its kind selects, invoked once; a verified event of another
\* kind invokes none, writes nothing and is acknowledged with 200.
C14_OneOperationByKind == [][OneOperationByKind(AnyEvent)]_vars

\* C14 amended: the same, for the verified events whose payload passes the
\* handler's validation (a created or updated event with id, email address
\* and image URL, a deleted event with id); the others are answered 400
\* without any operation.
C14_OneOperationIfDispatched ==
    [][/\ OneOperationByKind(Dispatchable)
       /\ nreq' # nreq /\ Verified(request') /\ ~Dispatchable(JSON_parse(request'.body)) =>
              /\ pc'[1] = Idle
              /\ response'[1].status = 400
              /\ ~StoreWrite]_vars

\* C14 witness: a verified deleted event is in the last step of deleteUser
C14_Witness ==
    /\ Verified(request)
    /\ JSON_parse(request.body).type = "user.deleted"
    /\ pc[1] = "deleteAnswers"

\* the payload lacks the id, an email address or the image URL
LacksRequired(d) ==
    \/ d.id = Null
    \/ d.email_addresses = Null
    \/ d.email_addresses = <<>>
    \/ d.email_addresses[1] = ""
    \/ d.image_url = NullAtom

\* C15: a verified created or updated event whose payload lacks the id, an
\* email address (list missing or empty, or first address empty) or the image
\* URL is answered 400, reaches no operation and writes nothing; and no
\* Account in the store has an empty clerkId, email or picture.
C15_IncompletePayload400 ==
    [][/\ /\ nreq' # nreq
          /\ Verified(request')
          /\ JSON_parse(request'.body).type \in {"user.created", "user.updated"}
          /\ LacksRequired(JSON_parse(request'.body).data)
          => /\ response'[1] = Response(400, "missing required user data", NoUser)
             /\ ~InCall(1)'
             /\ ~StoreWrite
       /\ \A u \in users' :
              /\ u.clerkId \notin {Null, <<>>}
              /\ u.email \notin {NullAtom, ""}
              /\ u.picture \notin {NullAtom, ""}]_vars

\* C15 witness: a verified updated event without image URL was answered 400
\* and the Account it names is as it was
C15_Witness ==
    /\ Verified(request)
    /\ JSON_parse(request.body) = [type |-> "user.updated", data |-> PNoImage]
    /\ response[1].status = 400
    /\ users = {AccountA}

\* the username stated for a payload: the one provided, else first and last
\* name joined, whitespace stripped and lower-cased, else user_ and the last
\* 6 characters of the id
StatedUsername(d) ==
    LET first == IF d.first_name = Null THEN <<>> ELSE d.first_name
        last == IF d.last_name = Null THEN <<>> ELSE d.last_name
        joined == toLowerCase(StripSpaces(first \o last))
        from == IF Len(d.id) > 6 THEN Len(d.id) - 5 ELSE 1
    IN  IF d.username \notin {Null, <<>>} THEN d.username
        ELSE IF joined # <<>> THEN joined
        ELSE UserPrefix \o SubSeq(d.id, from, Len(d.id))

\* C16: the username a created or updated event hands to createUser or
\* updateUser is the stated one, in either handler.
C16_UsernameFallback ==
    pc[1] \in {"createUser", "updateUser"} =>
        args[1].data.username = StatedUsername(JSON_parse(request.body).data)

\* C20: getSavedQuestions for an Account whose saved set refers to Questions
\* that exist no more does not fail; every item it returns is a Question in
\* the store, saved by the Account; and isNext is true iff more of the saved
\* Questions that exist are left than it returned.
C20_DanglingSavedSkipped ==
    [][read' # read /\ read'.op = "getSavedQuestions" =>
           LET items == read'.result.items
               existing == {q \in questions :
                               \E u \in users : u.clerkId = read'.key /\ q._id \in u.saved}
           IN  /\ ~read'.result.error
               /\ \A i \in 1..Len(items) : items[i] \in existing
               /\ Len(items) = Min(read'.pageSize, Cardinality(existing))
               /\ read'.result.isNext <=> Cardinality(existing) > Len(items)]_vars

\* C20 witness: AccountB saved questions 1 and 2; AccountA's delete cascade
\* removed question 1; the first page of size 1 of AccountB's saved questions
\* is question 2 and there is no next page
C20_Witness ==
    /\ users = {AccountB}
    /\ questions = {Question(2, 2)}
    /\ read.op = "getSavedQuestions"
    /\ read.key = ID2
    /\ read.pageSize = 1
    /\ read.result.items = <<Question(2, 2)>>
    /\ ~read.result.isNext

C23_MalformedBody400 ==
    /\ request # NoRequest
    /\ WEBHOOK_SECRET # NoSecret
    /\ ~MissingHeaders(request)
    /\ JSON_parse(request.body) = SyntaxError
    /\ response[1] # NoResponse
    => /\ response[1].status = 400
       /\ pc[1] = Idle

\* C27: when updateUser runs for an existing Account with a username or an
\* email that a different Account holds, the request is answered with 500 and
\* no Account, Question or Answer is changed.
C27_UpdateCollision ==
    [][\A p \in Procs :
           /\ pc[p] = "updateUser"
           /\ pc'[p] # pc[p]
           /\ \E u \in users, v \in users :
                  /\ u.clerkId = args[p].clerkId
                  /\ v # u
                  /\ \/ v.username = args[p].data.username
                     \/ v.email = args[p].data.email
           => /\ response'[p].status = 500
              /\ Store' = Store]_vars

\* C27 witness: a verified updated event giving AccountA the email of AccountB
\* was answered with 500, and both Accounts are as they were
C27_Witness ==
    /\ request # NoRequest
    /\ Verified(request)
    /\ JSON_parse(request.body) = [type |-> "user.updated", data |-> PE]
    /\ response[1].status = 500
    /\ users = {AccountA, AccountB}

------------------------------------------------------------------------------
(* Properties of toggleSaveQuestion (SpecToggle).                          *)

\* the question was in the user's saved set at the start: every seeded store
\* that has the Account has it with the same saved set, and only
\* toggleSaveQuestion writes to it here
Initially(t) ==
    \E s \in Stores : \E u \in s.users : u._id = t[1] /\ t[2] \in u.saved

\* C26: whenever no toggleSaveQuestion call for an existing user and a
\* question is between its two awaits, the question is in the user's saved
\* set iff it was there at the start and an even number of calls for them
\* have completed, or it was not and an odd number have.
C26_ToggleXor ==
    \A t \in Targets :
        /\ User_findById(t[1]) # NoUser
        /\ \A p \in Procs : save[p].pc = Idle
        => (t[2] \in User_findById(t[1]).saved
               <=> (Initially(t) <=> toggled.completed[t] % 2 = 0))

------------------------------------------------------------------------------
(* Properties of the question edit page (SpecEdit).                        *)

\* C30: a load of the question edit page ends with a redirect to /sign-in, an
\* error or the form; when it ends with the form, the requester is signed in,
\* an Account with the requester's clerkId is in the store and is the Account
\* the page read, a Question with the requested id is in the store, and its
\* author is an Account in the store that has the requester's clerkId or the
\* _id of the Account the page read.
C30_EditFormOnlyForAuthor ==
    [][edit' # edit /\ edit'.pc = Idle =>
           /\ edit'.outcome.kind \in {"redirect", "error", "form"}
           /\ edit'.outcome.kind = "redirect" => edit'.outcome.detail = "/sign-in"
           /\ edit'.outcome.kind = "form" =>
                  /\ edit'.clerkId # Null
                  /\ edit.mongoUser # NoUser
                  /\ edit.mongoUser.clerkId = edit'.clerkId
                  /\ \E u \in users : u.clerkId = edit'.clerkId
                  /\ \E q \in questions :
                         /\ q._id = edit'.id
                         /\ \E u \in users :
                                /\ u._id = q.author
                                /\ \/ u.clerkId = edit'.clerkId
                                   \/ u._id = edit.mongoUser._id]_vars

\* C30 witness: the form was rendered for AccountB editing its own Question
\* after AccountA had been deleted
C30_Witness ==
    /\ edit.outcome.kind = "form"
    /\ edit.clerkId = ID2
    /\ edit.id = 2
    /\ edit.outcome.mongoUserId = AccountB._id
    /\ users = {AccountB}

------------------------------------------------------------------------------
(* Properties of the list operations (SpecList).                           *)

ListOps == {"getAllUsers", "getSavedQuestions", "getUserQuestions", "getUserAnswers"}

\* the documents a list operation is asked for
Matching(r) ==
    CASE r.op = "getAllUsers" -> users
      [] r.op = "getSavedQuestions" ->
            {q \in questions : \E u \in users : u.clerkId = r.key /\ q._id \in u.saved}
      [] r.op = "getUserQuestions" -> {q \in questions : q.author = r.key}
      [] r.op = "getUserAnswers" -> {a \in answers : a.author = r.key}
      [] OTHER -> {}

\* C17: a list operation called with page >= 1 and pageSize >= 1 fails only
\* for a missing userId; what it returns are at most pageSize distinct
\* matching items, as many as there are after the first (page-1)*pageSize,
\* and isNext is true iff the number of matching items exceeds
\* (page-1)*pageSize plus the number returned.
C17_Pagination ==
    /\ read.op \in ListOps
    /\ Falsy(read.searchQuery)
    /\ read.page >= 1
    /\ read.pageSize >= 1
    =>
        LET items == read.result.items
            total == Cardinality(Matching(read))
            before == (read.page - 1) * read.pageSize
        IN  IF read.result.error
            THEN read.op \in {"getUserQuestions", "getUserAnswers"} /\ read.key = 0
            ELSE /\ Len(items) <= read.pageSize
                 /\ \A i \in 1..Len(items) : items[i] \in Matching(read)
                 /\ \A i, j \in 1..Len(items) : items[i] = items[j] => i = j
                 /\ Len(items) = IF total <= before THEN 0
                                 ELSE Min(read.pageSize, total - before)
                 /\ read.result.isNext <=> total > before + Len(items)

\* C17 witness: the second page of size 1 of AccountA's three questions has
\* one item and a next page
C17_Witness ==
    /\ read.op = "getUserQuestions"
    /\ read.key = 1
    /\ read.page = 2
    /\ read.pageSize = 1
    /\ read.result.items = <<Question(2, 1)>>
    /\ read.result.isNext

\* C18: a list operation called with page < 1 hands the store no negative
\* skip amount, and either fails or returns what it returns for page 1.
C18_PageBelowOne ==
    read.op \in ListOps /\ Falsy(read.searchQuery) /\ read.page < 1 =>
        /\ \A i \in 1..Len(read.skip) : read.skip[i] >= 0
        /\ \/ read.result.error
           \/ read.result = Page(Matching(read), 1, read.pageSize, "throws")

\* the query occurs in the text, letter case ignored
Contains(text, query) ==
    \E off \in 0..(Len(text) - Len(query)) :
        \A i \in 1..Len(query) : LowerChar(query[i]) = LowerChar(text[off + i])

\* the documents of a search that contain the query literally
LiteralMatching(r) ==
    CASE r.op = "getAllUsers" ->
            {u \in users : Contains(u.name, r.searchQuery)
                              \/ Contains(u.username, r.searchQuery)}
      [] r.op = "getSavedQuestions" ->
            {q \in Matching(r) : Contains(q.title, r.searchQuery)}
      [] OTHER -> {}

\* C21: getAllUsers and getSavedQuestions called with a search query do not
\* fail on it, whatever characters it has, and return the page of the
\* documents that contain the query as a literal substring, case ignored.
C21_SearchIsLiteral ==
    /\ read.op \in {"getAllUsers", "getSavedQuestions"}
    /\ ~Falsy(read.searchQuery)
    /\ read.page >= 1
    => /\ ~read.result.error
       /\ read.result = Page(LiteralMatching(read), read.page, read.pageSize, "throws")

====
